---- MODULE Spec2Model ----
(***************************************************************************)
(* A model of src/src/experiment.py: the Experiment class that specifies   *)
(* and runs batches of RAMSES simulations.                                 *)
(*                                                                         *)
(* Strings are TLA+ strings (\o concatenates, Len measures).  Times are    *)
(* integers in milliseconds, voltages integers in per-mille of 1 pu, so    *)
(* that 20e-3 s is 20, the window of 5 s is 5000 and 0.7 pu is 700.        *)
(* Python lists are sequences, tuples are tuples, dicts are functions.     *)
(***************************************************************************)
EXTENDS Integers, Sequences, FiniteSets, TLC

VARIABLES
    \* ---- the fields of Experiment (lines 140-187)
    name,                \* self.name
    must_document,       \* self.must_document
    repetitions,         \* self.repetitions
    current_repetition,  \* self.current_repetition
    description,         \* self.description
    systems,             \* self.systems: list of (tag, System)
    controllers,         \* self.controllers: list of (tag, list of Controller)
    disturbances,        \* self.disturbances: list of (tag, list of Disturbance)
    observables,         \* self.observables: sorted list of Observable
    randomizations,      \* self.randomizations: list of (tag, Randomization)
    settings,            \* self.settings: dict
    solver_settings,     \* self.solver_settings: dict
    horizon,             \* self.horizon
    \* ---- history of the calls made on the object
    ncalls,              \* number of API calls made so far
    last,                \* the last API call: its name, arguments, outcome
    distCalls,           \* arguments of the successful add_disturbances calls
    inserted,            \* the observables put into self.observables, in order
    \* ---- the environment of the layout methods
    clock,               \* the wall clock, in seconds
    dirs,                \* the directories on disk: (parent, path) pairs
    files,               \* the files on disk: path -> text (its lines)
    pathLog,             \* the calls of case2str made: tags and result
    \* ---- run(): its position, the engine and the stored systems
    pc,                  \* "idle", "case", "stepping", "ended", "done", "raised"
    pos,                 \* number of the case in the order of run()'s loops
    step,                \* index of tk in time_values
    sessions,            \* the engine sessions made by pyramses.sim()
    cur,                 \* the engine calls and model updates of this case
    merged,              \* per stored system: what run() merged into it
    errSeen              \* an engine call has failed in this run()

vars == <<name, must_document, repetitions, current_repetition, description,
          systems, controllers, disturbances, observables, randomizations,
          settings, solver_settings, horizon, ncalls, last, distCalls,
          inserted, clock, dirs, files, pathLog,
          pc, pos, step, sessions, cur, merged, errSeen>>

cfgVars == <<name, must_document, repetitions, current_repetition,
             description, systems, controllers, disturbances, observables,
             randomizations, settings, solver_settings, horizon>>

fsVars == <<clock, dirs, files, pathLog>>

runVars == <<pc, pos, step, sessions, cur, merged, errSeen>>

-----------------------------------------------------------------------------
(* Bounds of the model *)

\* number of API calls in one behaviour
MaxCalls == 2

\* the last second the wall clock reaches
MaxClock == 2

-----------------------------------------------------------------------------
(* Class attributes and literals of the source *)

MaxNameLen == 10
MaxTagLen == 10
MaxDescriptionLen == 100

setting_names ==
    {"PLOT_STEP", "GP_REFRESH_RATE", "DISP_PROF", "T_LOAD_REST", "OMEGA_REF",
     "S_BASE", "NEWTON_TOLER", "FIN_DIFFER", "FULL_UPDATE", "SKIP_CONV",
     "LATENCY", "SCHEME", "NB_THREADS", "SPARSE_SOLVER", "OMP", "NET_FREQ_UPD"}

solver_setting_names == {"disc_method", "max_h", "min_h", "latency", "upd_over"}

\* A setting's value: a str, a number or a tuple of numbers.  A number is
\* held as the digits numpy's format_float_positional prints for it.
StrVal(s) == [kind |-> "str", parts |-> <<s>>]
NumVal(n) == [kind |-> "num", parts |-> <<n>>]
TupVal(ns) == [kind |-> "tuple", parts |-> ns]

\* the dict literal of __init__: its items in insertion order
DefaultSettings ==
    << <<"PLOT_STEP", NumVal("0.001")>>, <<"GP_REFRESH_RATE", NumVal("1.")>>,
       <<"DISP_PROF", StrVal("T")>>, <<"T_LOAD_REST", NumVal("0.005")>>,
       <<"OMEGA_REF", StrVal("COI")>>, <<"S_BASE", NumVal("100.")>>,
       <<"NEWTON_TOLER", TupVal(<<"0.001", "0.001", "0.0001">>)>>,
       <<"FIN_DIFFER", TupVal(<<"0.00001", "0.00001">>)>>,
       <<"FULL_UPDATE", StrVal("T")>>, <<"SKIP_CONV", StrVal("F")>>,
       <<"SCHEME", StrVal("DE")>>, <<"NB_THREADS", NumVal("2.")>>,
       <<"SPARSE_SOLVER", StrVal("KLU")>> >>

DefaultSolverSettings ==
    << <<"disc_method", StrVal("BD")>>, <<"max_h", NumVal("0.001")>>,
       <<"min_h", NumVal("0.001")>>, <<"latency", NumVal("0.")>>,
       <<"upd_over", StrVal("ABL")>> >>

DefaultDescription == "No description was provided."

DefaultRandomizations == << <<"Not random", [cls |-> "Randomization", description |-> "Not random"]>> >>

\* self.horizon = 200 (seconds), in milliseconds
DefaultHorizon == 200000

-----------------------------------------------------------------------------
(* Python helpers *)

RECURSIVE Repeat(_, _)
\* the string s * n
Repeat(s, n) == IF n = 0 THEN "" ELSE s \o Repeat(s, n - 1)

\* A dict is the sequence of its (key, value) items in insertion order.
Keys(d) == {d[i][1] : i \in DOMAIN d}

\* d[k]
DictGet(d, k) == d[CHOOSE i \in DOMAIN d : d[i][1] = k][2]

\* d[k] = v: an existing key keeps its place, a new key goes last
DictSet(d, k, v) ==
    IF k \in Keys(d)
    THEN [i \in DOMAIN d |-> IF d[i][1] = k THEN <<k, v>> ELSE d[i]]
    ELSE Append(d, <<k, v>>)

\* isinstance(x, C) for the objects of the collaborating modules
IsInstance(x, c) == x.cls = c

Range(s) == {s[i] : i \in DOMAIN s}

-----------------------------------------------------------------------------
(* The values the calls are made with *)

NameInputs == {"exp", "experiment", "experiment1"}
DLLDirInputs == {TRUE, FALSE}             \* whether DLL_dir exists on disk
RepetitionInputs ==                       \* isint: whether the value is an int
    {[isint |-> TRUE, val |-> 0], [isint |-> TRUE, val |-> 1],
     [isint |-> TRUE, val |-> 2], [isint |-> FALSE, val |-> 2]}
DescriptionInputs == {"a study", Repeat("x", 100), Repeat("x", 101)}
TagInputs == {"t1", "tencharsxx", "elevenchars"}

Obs(k) == [cls |-> "Observable", key |-> k]
NotAnObservable == [cls |-> "str", key |-> 0]
ObservableBatchInputs ==
    {<<>>, <<Obs(2)>>, <<Obs(3), Obs(1)>>, <<Obs(2), Obs(2), Obs(1)>>,
     <<Obs(1), NotAnObservable, Obs(3)>>}

\* a System; its detectors are given by the observables each requires
Sys(n) == [cls |-> "System", key |-> n,
           detectors |-> IF n = 1 THEN << <<Obs(2), Obs(1)>> >> ELSE <<>>]
NotASystem == [cls |-> "dict", key |-> 1, detectors |-> <<>>]
SystemInputs == {Sys(1), NotASystem}

Dist(k) == [cls |-> "Disturbance", key |-> k]
NotADisturbance == [cls |-> "str", key |-> 0]
DisturbanceBatchInputs ==
    {<<>>, <<Dist(1)>>, <<Dist(2), Dist(1)>>, <<Dist(1), Dist(2)>>,
     <<Dist(3), Dist(1), Dist(2)>>, <<Dist(2), Dist(1), Dist(2)>>,
     <<Dist(2), NotADisturbance>>}

Ctl(k) == [cls |-> "Controller", key |-> k, overrides_OLTCs |-> TRUE, get_actions |-> TRUE]
ControllerBatchInputs ==
    {<<>>, <<Ctl(1)>>, <<Ctl(2), Ctl(1)>>,
     <<[Ctl(1) EXCEPT !.cls = "str"]>>,
     <<Ctl(1), [Ctl(2) EXCEPT !.overrides_OLTCs = FALSE]>>,
     <<[Ctl(1) EXCEPT !.get_actions = FALSE]>>}

SettingKeyInputs == {"PLOT_STEP", "LATENCY", "BOGUS"}
SettingValueInputs == {NumVal("0.01"), StrVal("F")}
SolverKeyInputs == {"max_h", "bogus"}
SolverValueInputs == {NumVal("0.02")}
HorizonInputs == {-1000, 0, 60, 5060}

\* a dict argument: its items in iteration order, the keys distinct
DictInputs(keys, values) ==
    {<<>>} \cup {<<<<k, v>>>> : k \in keys, v \in values}
           \cup {u \in {<<<<k1, v1>>, <<k2, v2>>>> :
                           k1 \in keys, k2 \in keys, v1 \in values, v2 \in values} :
                    u[1][1] # u[2][1]}

-----------------------------------------------------------------------------
(* Experiment.__init__ *)

\* the three checks of __init__: it raises unless they pass
InitAccepts(n, dllExists, reps) ==
    /\ ~(Len(n) > MaxNameLen)
    /\ dllExists
    /\ ~(~reps.isint \/ reps.val < 1)

\* the record of a case's engine calls, before any was made
NoCase == [outcome |-> "none", volt |-> <<>>, readAt |-> -1, nCont |-> 0,
           lastTarget |-> -1, nDet |-> 0, nFol |-> 0, nSend |-> 0,
           sentUntil |-> -1, engineErr |-> "", printed |-> ""]

NoCall == [op |-> "__init__", raised |-> FALSE, upd |-> <<>>,
           preSettings |-> DefaultSettings,
           preSolver |-> DefaultSolverSettings, preHorizon |-> DefaultHorizon]

Init ==
    /\ \E n \in NameInputs, dll \in DLLDirInputs, reps \in RepetitionInputs :
          /\ InitAccepts(n, dll, reps)
          /\ name = n
          /\ repetitions = reps
    /\ must_document \in BOOLEAN
    /\ description = DefaultDescription
    /\ systems = <<>>
    /\ controllers = <<>>
    /\ disturbances = <<>>
    /\ observables = <<>>
    /\ randomizations = DefaultRandomizations
    /\ settings = DefaultSettings
    /\ solver_settings = DefaultSolverSettings
    /\ horizon = DefaultHorizon
    /\ current_repetition = 1
    /\ ncalls = 0
    /\ last = NoCall
    /\ distCalls = <<>>
    /\ inserted = <<>>
    /\ clock = 0
    /\ dirs = {}
    /\ files = [p \in {} |-> <<>>]
    /\ pathLog = {}
    /\ pc = "idle"
    /\ pos = 0
    /\ step = 0
    /\ sessions = <<>>
    /\ cur = NoCase
    /\ merged = <<>>
    /\ errSeen = FALSE

Called(op, raised, upd) ==
    /\ ncalls' = ncalls + 1
    /\ last' = [op |-> op, raised |-> raised, upd |-> upd,
                preSettings |-> settings, preSolver |-> solver_settings,
                preHorizon |-> horizon]

-----------------------------------------------------------------------------
(* describe, add_system, add_disturbances, add_controllers *)

Describe ==
    /\ ncalls < MaxCalls
    /\ \E d \in DescriptionInputs :
          IF Len(d) > MaxDescriptionLen
          THEN /\ Called("describe", TRUE, <<>>)
               /\ UNCHANGED description
          ELSE /\ Called("describe", FALSE, <<>>)
               /\ description' = d
    /\ UNCHANGED <<name, must_document, repetitions, current_repetition,
                   systems, controllers, disturbances, observables,
                   randomizations, settings, solver_settings, horizon,
                   distCalls, inserted>>
    /\ UNCHANGED <<fsVars, runVars>>

\* add_system with the check of the tag's length left out
AddSystemRaises_NoTagCheck(tag, system) == ~IsInstance(system, "System")

AddSystemRaises(tag, system) ==
    \/ Len(tag) > MaxTagLen
    \/ ~IsInstance(system, "System")

AddSystem ==
    /\ ncalls < MaxCalls
    /\ \E tag \in TagInputs, system \in SystemInputs :
          IF AddSystemRaises(tag, system)
          THEN /\ Called("add_system", TRUE, <<>>)
               /\ UNCHANGED systems
          ELSE /\ Called("add_system", FALSE, <<>>)
               /\ systems' = Append(systems, <<tag, system>>)
    /\ UNCHANGED <<name, must_document, repetitions, current_repetition,
                   description, controllers, disturbances, observables,
                   randomizations, settings, solver_settings, horizon,
                   distCalls, inserted>>
    /\ UNCHANGED <<fsVars, runVars>>

\* a < b for two disturbances, or two observables (their __lt__)
Less(a, b) == a.key < b.key

\* the insertion without the search for the place: x put at the end
InsertSorted_AtEnd(s, x) == Append(s, x)

RECURSIVE InsertSorted(_, _)
\* x put into the sorted list s after every element that is not greater
InsertSorted(s, x) ==
    IF s = <<>> THEN <<x>>
    ELSE IF Less(x, Head(s)) THEN <<x>> \o s
    ELSE <<Head(s)>> \o InsertSorted(Tail(s), x)

RECURSIVE SortedList(_)
\* sorted(list(s)): ascending and stable
SortedList(s) ==
    IF s = <<>> THEN <<>>
    ELSE InsertSorted(SortedList(SubSeq(s, 1, Len(s) - 1)), s[Len(s)])

AddDisturbancesRaises(tag, ds) ==
    \/ Len(tag) > MaxTagLen
    \/ \E i \in DOMAIN ds : ~IsInstance(ds[i], "Disturbance")

\* add_disturbances storing the batch as supplied, without sorting it
DisturbanceElement_Unsorted(tag, ds) == <<tag, ds>>

\* the element appended to self.disturbances
DisturbanceElement(tag, ds) == <<tag, SortedList(ds)>>

AddDisturbances ==
    /\ ncalls < MaxCalls
    /\ \E tag \in TagInputs, ds \in DisturbanceBatchInputs :
          IF AddDisturbancesRaises(tag, ds)
          THEN /\ Called("add_disturbances", TRUE, <<>>)
               /\ UNCHANGED <<disturbances, distCalls>>
          ELSE /\ Called("add_disturbances", FALSE, <<>>)
               /\ disturbances' = Append(disturbances, DisturbanceElement(tag, ds))
               /\ distCalls' = Append(distCalls, <<tag, ds>>)
    /\ UNCHANGED <<name, must_document, repetitions, current_repetition,
                   description, systems, controllers, observables,
                   randomizations, settings, solver_settings, horizon,
                   inserted>>
    /\ UNCHANGED <<fsVars, runVars>>

AddControllersRaises(tag, cs) ==
    \/ Len(tag) > MaxTagLen
    \/ \E i \in DOMAIN cs :
          \/ ~IsInstance(cs[i], "Controller")
          \/ ~cs[i].overrides_OLTCs
          \/ ~cs[i].get_actions

AddControllers ==
    /\ ncalls < MaxCalls
    /\ \E tag \in TagInputs, cs \in ControllerBatchInputs :
          IF AddControllersRaises(tag, cs)
          THEN /\ Called("add_controllers", TRUE, <<>>)
               /\ UNCHANGED controllers
          ELSE /\ Called("add_controllers", FALSE, <<>>)
               /\ controllers' = Append(controllers, <<tag, cs>>)
    /\ UNCHANGED <<name, must_document, repetitions, current_repetition,
                   description, systems, disturbances, observables,
                   randomizations, settings, solver_settings, horizon,
                   distCalls, inserted>>
    /\ UNCHANGED <<fsVars, runVars>>

-----------------------------------------------------------------------------
(* add_observables, get_observables_str *)

RECURSIVE ObservablesLoop(_, _, _)
\* the loop of add_observables: the list it leaves behind, the observables
\* it inserted and whether it raised
ObservablesLoop(reg, args, done) ==
    IF args = <<>> THEN [reg |-> reg, done |-> done, raised |-> FALSE]
    ELSE IF ~IsInstance(Head(args), "Observable")
         THEN [reg |-> reg, done |-> done, raised |-> TRUE]
         ELSE ObservablesLoop(InsertSorted(reg, Head(args)), Tail(args),
                              Append(done, Head(args)))

AddObservables ==
    /\ ncalls < MaxCalls
    /\ \E args \in ObservableBatchInputs :
          LET r == ObservablesLoop(observables, args, <<>>) IN
          /\ Called("add_observables", r.raised, <<>>)
          /\ observables' = r.reg
          /\ inserted' = inserted \o r.done
    /\ UNCHANGED <<name, must_document, repetitions, current_repetition,
                   description, systems, controllers, disturbances,
                   randomizations, settings, solver_settings, horizon,
                   distCalls>>
    /\ UNCHANGED <<fsVars, runVars>>

\* str(obs) of an observable
ObsStr(o) == "BUS " \o ToString(o.key)

RECURSIVE SortedSet(_)
\* sorted(list(S)) of a set S
SortedSet(S) ==
    IF S = {} THEN <<>>
    ELSE LET x == CHOOSE x \in S : TRUE IN InsertSorted(SortedSet(S \ {x}), x)

\* get_observables_str with the set() left out
ObservablesText_NoSet(reg) == [i \in DOMAIN reg |-> ObsStr(reg[i])]

\* get_observables_str() when self.observables is reg: the text as the
\* sequence of its lines
ObservablesText(reg) ==
    LET sorted == SortedSet(Range(reg))
    IN  [i \in DOMAIN sorted |-> ObsStr(sorted[i])]

GetObservablesStr == ObservablesText(observables)

-----------------------------------------------------------------------------
(* set_RAMSES_settings, set_solver_and_horizon *)

RECURSIVE SettingsLoop(_, _)
\* the loop of set_RAMSES_settings over settings_dict.items(): the dict it
\* leaves behind and whether it raised
SettingsLoop(map, upd) ==
    IF upd = <<>> THEN [map |-> map, raised |-> FALSE]
    ELSE IF Head(upd)[1] \notin setting_names
         THEN [map |-> map, raised |-> TRUE]
         ELSE SettingsLoop(DictSet(map, Head(upd)[1], Head(upd)[2]), Tail(upd))

SetRAMSESSettings ==
    /\ ncalls < MaxCalls
    /\ \E upd \in DictInputs(SettingKeyInputs, SettingValueInputs) :
          LET r == SettingsLoop(settings, upd) IN
          /\ Called("set_RAMSES_settings", r.raised, upd)
          /\ settings' = r.map
    /\ UNCHANGED <<name, must_document, repetitions, current_repetition,
                   description, systems, controllers, disturbances,
                   observables, randomizations, solver_settings, horizon,
                   distCalls, inserted>>
    /\ UNCHANGED <<fsVars, runVars>>

RECURSIVE SolverLoop(_, _)
\* the loop of set_solver_and_horizon over solver_settings_dict.items()
SolverLoop(map, upd) ==
    IF upd = <<>> THEN [map |-> map, raised |-> FALSE]
    ELSE IF Head(upd)[1] \notin solver_setting_names
         THEN [map |-> map, raised |-> TRUE]
         ELSE SolverLoop(DictSet(map, Head(upd)[1], Head(upd)[2]), Tail(upd))

SetSolverAndHorizon ==
    /\ ncalls < MaxCalls
    /\ \E upd \in DictInputs(SolverKeyInputs, SolverValueInputs),
          h \in HorizonInputs :
          IF h <= 0
          THEN /\ Called("set_solver_and_horizon", TRUE, upd)
               /\ UNCHANGED <<horizon, solver_settings>>
          ELSE LET r == SolverLoop(solver_settings, upd) IN
               /\ Called("set_solver_and_horizon", r.raised, upd)
               /\ horizon' = h
               /\ solver_settings' = r.map
    /\ UNCHANGED <<name, must_document, repetitions, current_repetition,
                   description, systems, controllers, disturbances,
                   observables, randomizations, settings, distCalls,
                   inserted>>
    /\ UNCHANGED <<fsVars, runVars>>

-----------------------------------------------------------------------------

Next ==
    \/ Describe
    \/ AddSystem
    \/ AddDisturbances
    \/ AddControllers
    \/ AddObservables
    \/ SetRAMSESSettings
    \/ SetSolverAndHorizon

Spec == Init /\ [][Next]_vars

-----------------------------------------------------------------------------
(* get_timestamp, get_dir, case2str *)

\* get_timestamp() read at second t: "[%Y-%m-%d %H %M %S]", of fixed width
GetTimestamp(t) == "[2026-11-01 09 00 0" \o ToString(t) \o "]"

\* get_dir() when the clock reads t
GetDir(t) ==
    IF must_document
    THEN IF repetitions.val = 1
         THEN GetTimestamp(t) \o " " \o name
         ELSE GetTimestamp(t) \o " " \o name \o " ("
                  \o ToString(current_repetition) \o ")"
    ELSE name

\* case2str(system, disturbance, controller, randomization description) when
\* the clock reads t; tags is the tuple of the four descriptions
Case2Str(t, tags) ==
    GetDir(t) \o "/" \o tags[1] \o ", " \o tags[2] \o ", "
              \o tags[3] \o ", " \o tags[4]

-----------------------------------------------------------------------------
(* get_settings_str, get_solver_and_horizon_str: a text is the sequence of *)
(* its lines                                                               *)

Max(S) == CHOOSE x \in S : \A y \in S : y <= x

\* s.ljust(w), s.rjust(w)
LJust(s, w) == IF Len(s) >= w THEN s ELSE s \o Repeat(" ", w - Len(s))
RJust(s, w) == IF Len(s) >= w THEN s ELSE Repeat(" ", w - Len(s)) \o s

RECURSIVE Join(_, _)
\* sep.join(parts)
Join(parts, sep) ==
    IF parts = <<>> THEN ""
    ELSE IF Len(parts) = 1 THEN parts[1]
    ELSE parts[1] \o sep \o Join(Tail(parts), sep)

\* val2str: the components of a tuple joined by blanks
Val2Str(v) == IF v.kind = "tuple" THEN Join(v.parts, " ") ELSE v.parts[1]

\* the text with a line for the names of the dict literal of __init__ only
GetSettingsStr_DefaultsOnly ==
    LET setting_width == Max({Len(k) : k \in Keys(settings)}) + 1
        val_width == Max({Len(Val2Str(settings[i][2])) : i \in DOMAIN settings}) + 1
    IN  <<"# Simulation settings", "">> \o
        [i \in DOMAIN DefaultSettings |->
            "$" \o LJust(settings[i][1], setting_width)
                \o LJust(Val2Str(settings[i][2]), val_width) \o ";"]

GetSettingsStr ==
    LET setting_width == Max({Len(k) : k \in Keys(settings)}) + 1
        val_width == Max({Len(Val2Str(settings[i][2])) : i \in DOMAIN settings}) + 1
    IN  <<"# Simulation settings", "">> \o
        [i \in DOMAIN settings |->
            "$" \o LJust(settings[i][1], setting_width)
                \o LJust(Val2Str(settings[i][2]), val_width) \o ";"]

\* f"{x:.3f}" of a time x held in milliseconds
Fixed3(ms) ==
    LET frac == ms % 1000
    IN  ToString(ms \div 1000) \o "." \o
        (IF frac < 10 THEN "00" ELSE IF frac < 100 THEN "0" ELSE "") \o
        ToString(frac)

GetSolverAndHorizonStr ==
    LET t0 == Fixed3(0)
        tf == Fixed3(horizon)
        width == Max({Len(t0), Len(tf)})
    IN  << RJust(t0, width) \o " CONTINUE SOLVER "
             \o Val2Str(DictGet(solver_settings, "disc_method")) \o " "
             \o Val2Str(DictGet(solver_settings, "max_h")) \o " "
             \o Val2Str(DictGet(solver_settings, "min_h")) \o " "
             \o Val2Str(DictGet(solver_settings, "latency")) \o " "
             \o Val2Str(DictGet(solver_settings, "upd_over")),
           RJust(tf, width) \o " STOP" >>

-----------------------------------------------------------------------------
(* init_files_and_dirs *)

inp_dir == "0_Input"
out_dir == "1_RAMSES output"
vis_dir == "2_Visualizations"
obs_dir == "3_Explicit observables"
obs_children_dirs == <<"BUS", "SYNC", "INJEC", "SHUNT", "DCTL", "BRANCH">>
met_dir == "4_Metrics"
det_dir == "5_Detectors"
common_children_dirs == <<inp_dir, out_dir, vis_dir, obs_dir, met_dir, det_dir>>
syst_filename == "system.dat"
sett_filename == "settings.dat"
obse_filename == "observables.dat"
dist_filename == "disturbances.dat"

\* os.path.join(a, b)
PathJoin(a, b) == a \o "/" \o b

\* os.path.exists(path) for a directory
DirExists(ds, path) == \E d \in ds : d[2] = path

\* os.mkdir(path), parent being the directory that holds path ("." is the
\* working directory): it raises when path exists or parent does not
Mkdir(fs, parent, path) ==
    IF fs.raised THEN fs
    ELSE IF DirExists(fs.dirs, path) \/ (parent # "." /\ ~DirExists(fs.dirs, parent))
         THEN [fs EXCEPT !.raised = TRUE]
         ELSE [fs EXCEPT !.dirs = @ \cup {<<parent, path>>}]

\* if not os.path.exists(path): os.mkdir(path)
EnsureDir(fs, parent, path) ==
    IF fs.raised \/ DirExists(fs.dirs, path) THEN fs ELSE Mkdir(fs, parent, path)

\* with open(path, "w") as f: f.write(text), dir being the directory of path
WriteFile(fs, dir, path, text) ==
    IF fs.raised THEN fs
    ELSE IF ~DirExists(fs.dirs, dir) THEN [fs EXCEPT !.raised = TRUE]
         ELSE [fs EXCEPT !.files = (path :> text) @@ @]

\* the case tuples of the four nested "for" clauses, the first axis outermost:
\* the i-th tuple of indices into axes of lengths n1..n4
NthIndices(i, n1, n2, n3, n4) ==
    << ((i - 1) \div (n2 * n3 * n4)) + 1,
       (((i - 1) \div (n3 * n4)) % n2) + 1,
       (((i - 1) \div n4) % n3) + 1,
       ((i - 1) % n4) + 1 >>

NumCases == Len(systems) * Len(disturbances) * Len(controllers) * Len(randomizations)

\* the tags of the cases in the order of the comprehension of
\* init_files_and_dirs: for sys, for dis, for con, for ran
LayoutCases ==
    [i \in 1..NumCases |->
        LET ix == NthIndices(i, Len(systems), Len(disturbances),
                             Len(controllers), Len(randomizations))
        IN  <<systems[ix[1]][1], disturbances[ix[2]][1],
              controllers[ix[3]][1], randomizations[ix[4]][1]>>]

RECURSIVE MakeObsChildren(_, _, _)
\* the loop over obs_children_dirs
MakeObsChildren(fs, obsPath, i) ==
    IF i > Len(obs_children_dirs) THEN fs
    ELSE MakeObsChildren(
             EnsureDir(fs, obsPath, PathJoin(obsPath, obs_children_dirs[i])),
             obsPath, i + 1)

RECURSIVE MakeChildren(_, _, _)
\* the loop over common_children_dirs
MakeChildren(fs, case_dir, i) ==
    IF i > Len(common_children_dirs) THEN fs
    ELSE LET child == common_children_dirs[i]
             made == EnsureDir(fs, case_dir, PathJoin(case_dir, child))
         IN  MakeChildren(
                 IF child = obs_dir
                 THEN MakeObsChildren(made, PathJoin(case_dir, child), 1)
                 ELSE made,
                 case_dir, i + 1)

\* the three texts init_files_and_dirs writes into every case directory, for
\* the registry reg: get_observables_str(), get_settings_str() and
\* get_solver_and_horizon_str(); nothing between the writes changes them
InputTexts(reg) ==
    [obse |-> ObservablesText(reg),
     sett |-> GetSettingsStr,
     dist |-> GetSolverAndHorizonStr]

\* the body of the loop over case_dirs for one case directory, root being the
\* get_dir() it was named under
MakeCase(fs, root, case_dir, texts) ==
    LET inp == PathJoin(case_dir, inp_dir)
        f1 == MakeChildren(EnsureDir(fs, root, case_dir), case_dir, 1)
        f2 == WriteFile(f1, inp, PathJoin(inp, obse_filename), texts.obse)
        f3 == WriteFile(f2, inp, PathJoin(inp, sett_filename), texts.sett)
    IN  WriteFile(f3, inp, PathJoin(inp, dist_filename), texts.dist)

RECURSIVE MakeCases(_, _, _, _)
\* the loop over case_dirs; reads[i] is the clock at the i-th call of get_dir
MakeCases(fs, reads, i, texts) ==
    IF i > NumCases \/ fs.raised THEN fs
    ELSE MakeCases(MakeCase(fs, GetDir(reads[i]),
                            Case2Str(reads[i], LayoutCases[i]), texts),
                   reads, i + 1, texts)

\* init_files_and_dirs(): the disk it leaves and whether it raised.  It calls
\* get_dir() once per case, then once to test the root and once to make it.
InitFilesAndDirs(fs, reads, texts) ==
    LET rootTested == GetDir(reads[NumCases + 1])
        rootMade == GetDir(reads[NumCases + 2])
        f0 == IF DirExists(fs.dirs, rootTested) THEN fs ELSE Mkdir(fs, ".", rootMade)
    IN  MakeCases(f0, reads, 1, texts)

\* the clock at n successive reads that start at second t0, the clock moving
\* on by one second before read number tickAt (never, when tickAt > n)
ClockReads(t0, n, tickAt) == [i \in 1..n |-> IF i >= tickAt THEN t0 + 1 ELSE t0]

\* the places where the clock may move during n reads: none in flat mode,
\* where get_dir does not read it
TickPlaces(n) ==
    IF must_document /\ clock < MaxClock THEN 1..(n + 1) ELSE {n + 1}

-----------------------------------------------------------------------------
(* The layout methods called on a configured experiment *)

LayoutInit ==
    /\ name = "exp"
    /\ must_document \in BOOLEAN
    /\ repetitions \in {[isint |-> TRUE, val |-> 1], [isint |-> TRUE, val |-> 2]}
    /\ current_repetition = 1
    /\ description = DefaultDescription
    /\ systems \in {<< <<"a", Sys(1)>> >>,
                    << <<"a", Sys(1)>>, <<"a, b", Sys(2)>> >>}
    /\ disturbances \in {<< <<"c", <<Dist(1)>> >> >>,
                         << <<"b, c", <<>> >>, <<"c", <<Dist(1)>> >> >>}
    /\ controllers = << <<"k", <<Ctl(1)>> >> >>
    /\ observables \in {<<>>, <<Obs(1), Obs(1), Obs(2)>>}
    /\ randomizations = DefaultRandomizations
    /\ settings = DefaultSettings
    /\ solver_settings = DefaultSolverSettings
    /\ horizon = DefaultHorizon
    /\ ncalls = 0
    /\ last = NoCall
    /\ distCalls = <<>>
    /\ inserted = <<>>
    /\ clock = 0
    /\ dirs = {}
    /\ files = [p \in {} |-> <<>>]
    /\ pathLog = {}
    /\ pc = "idle"
    /\ pos = 0
    /\ step = 0
    /\ sessions = <<>>
    /\ cur = NoCase
    /\ merged = <<>>
    /\ errSeen = FALSE

\* a second passes
Tick ==
    /\ clock < MaxClock
    /\ clock' = clock + 1
    /\ last' = [last EXCEPT !.op = "tick"]
    /\ UNCHANGED <<cfgVars, ncalls, distCalls, inserted, dirs, files, pathLog,
                   runVars>>

TagTupleInputs == {<<s, d, "k", "Not random">> : s \in {"a", "a, b"}, d \in {"c", "b, c"}}

Case2StrCall ==
    /\ ncalls < MaxCalls
    /\ \E tags \in TagTupleInputs :
          pathLog' = pathLog \cup {[tags |-> tags, result |-> Case2Str(clock, tags)]}
    /\ Called("case2str", FALSE, <<>>)
    /\ UNCHANGED <<cfgVars, distCalls, inserted, clock, dirs, files, runVars>>

InitFilesAndDirsCall ==
    /\ ncalls < MaxCalls
    /\ \E tickAt \in TickPlaces(NumCases + 2), texts \in {InputTexts(observables)} :
          LET reads == ClockReads(clock, NumCases + 2, tickAt)
              r == InitFilesAndDirs([dirs |-> dirs, files |-> files, raised |-> FALSE],
                                    reads, texts)
          IN  /\ Called("init_files_and_dirs", r.raised, <<>>)
              /\ dirs' = r.dirs
              /\ files' = r.files
              /\ clock' = reads[NumCases + 2]
    /\ UNCHANGED <<cfgVars, distCalls, inserted, pathLog, runVars>>

LayoutNext ==
    \/ Tick
    \/ Case2StrCall
    \/ InitFilesAndDirsCall

SpecLayout == LayoutInit /\ [][LayoutNext]_vars

-----------------------------------------------------------------------------
(* The settings and solver calls followed by the writing of the files *)

\* a configured experiment in flat mode with the settings of construction
SettingsInit ==
    /\ LayoutInit
    /\ must_document = FALSE
    /\ repetitions.val = 1

SettingsNext ==
    \/ SetRAMSESSettings
    \/ SetSolverAndHorizon
    \/ InitFilesAndDirsCall

SpecSettings == SettingsInit /\ [][SettingsNext]_vars

-----------------------------------------------------------------------------
(* run() *)

\* self.pyramses_step = 20e-3, self.disturbance_window = 5 and
\* self.error_voltages = (0.7, 1.2), in milliseconds and per-mille
PyramsesStep == 20
DisturbanceWindow == 5000
ErrorVmin == 700
ErrorVmax == 1200

\* len(np.arange(0, horizon, h)): the values are 0, h, 2h, ... below horizon
NumSteps == (horizon + PyramsesStep - 1) \div PyramsesStep

NumRunCases == Len(systems) * Len(controllers) * Len(disturbances) * Len(randomizations)

\* the case of number i in the order of run()'s loops: for sys, for con,
\* for dis, for ran; s, c, d, r index the four lists
RunCase(i) ==
    LET ix == NthIndices(i, Len(systems), Len(controllers),
                         Len(disturbances), Len(randomizations))
    IN  [s |-> ix[1], c |-> ix[2], d |-> ix[3], r |-> ix[4]]

\* the four descriptions run() hands to case2str
RunCaseTags(i) ==
    <<systems[RunCase(i).s][1], disturbances[RunCase(i).d][1],
      controllers[RunCase(i).c][1], randomizations[RunCase(i).r][1]>>

\* what the engine may answer to getBusVolt(monitored_buses)
VoltageReadings ==
    {<<1000, 1000>>, <<1000, 700>>, <<1250, 1000>>}

\* all(vmin < v < vmax for v in voltages)
AllInBand(voltages) ==
    \A i \in DOMAIN voltages : ErrorVmin < voltages[i] /\ voltages[i] < ErrorVmax

\* sys.add_controllers(cs), sys.add_disturbances(ds) and the delays set on
\* sys.OLTC_controllers, on the record of what was merged into a system
SysAddControllers(m, cs) == [m EXCEPT !.controllers = @ \o cs]
SysAddDisturbances(m, ds) == [m EXCEPT !.disturbances = @ \o ds]
SysSetOLTCDelays(m) == [m EXCEPT !.oltc_delay = (3 * PyramsesStep) \div 4]

Unmerged == [controllers |-> <<>>, disturbances |-> <<>>, oltc_delay |-> 0]

\* sys.export_to_RAMSES(path): the text it writes
SystemText(system) == <<"# system " \o ToString(system.key)>>

RECURSIVE RequiredLoop(_, _, _)
\* for d in sys.detectors: self.add_observables(*d.get_required_observables())
RequiredLoop(r, detectors, i) ==
    IF i > Len(detectors) THEN r
    ELSE RequiredLoop(ObservablesLoop(r.reg, detectors[i], r.done), detectors, i + 1)

\* run() is called
RunStart ==
    /\ pc = "idle"
    /\ pc' = IF NumRunCases = 0 THEN "done" ELSE "case"
    /\ pos' = IF NumRunCases = 0 THEN 0 ELSE 1
    /\ errSeen' = FALSE
    /\ last' = [last EXCEPT !.op = "run"]
    /\ UNCHANGED <<cfgVars, ncalls, distCalls, inserted, fsVars, step,
                   sessions, cur, merged>>

\* the body of the four loops up to the engine's initialization.  con[1][0]
\* raises on an empty batch; init_files_and_dirs or the export may raise.
CaseInit ==
    /\ pc = "case"
    /\ LET c == RunCase(pos)
           system == systems[c.s][2]
           con == controllers[c.c]
           dis == disturbances[c.d]
       IN  IF con[2] = <<>>
           THEN /\ pc' = "raised"
                /\ UNCHANGED <<observables, inserted, clock, dirs, files,
                               sessions, cur, merged, step>>
           ELSE \E req \in {RequiredLoop([reg |-> observables, done |-> <<>>,
                                             raised |-> FALSE],
                                            system.detectors, 1)} :
                \E tickAt \in TickPlaces(NumCases + 3), texts \in {InputTexts(req.reg)} :
                LET m == SysSetOLTCDelays(SysAddDisturbances(
                             SysAddControllers(merged[c.s], con[2]), dis[2]))
                    reads == ClockReads(clock, NumCases + 3, tickAt)
                    cwd == Case2Str(reads[1], RunCaseTags(pos))
                    f1 == InitFilesAndDirs(
                              [dirs |-> dirs, files |-> files, raised |-> FALSE],
                              [i \in 1..(NumCases + 2) |-> reads[i + 1]],
                              texts)
                    inp == PathJoin(cwd, inp_dir)
                    f2 == WriteFile(f1, inp, PathJoin(inp, syst_filename), SystemText(system))
                IN  /\ observables' = req.reg
                    /\ inserted' = inserted \o req.done
                    /\ merged' = [merged EXCEPT ![c.s] = m]
                    /\ clock' = reads[NumCases + 3]
                    /\ dirs' = f2.dirs
                    /\ files' = f2.files
                    /\ IF f2.raised
                       THEN /\ pc' = "raised"
                            /\ UNCHANGED <<sessions, cur, step>>
                       ELSE /\ pc' = "stepping"
                            /\ sessions' = Append(sessions, [case |-> pos, closed |-> 0])
                            /\ cur' = [NoCase EXCEPT !.outcome = "running"]
                            /\ step' = 0
    /\ UNCHANGED <<name, must_document, repetitions, current_repetition,
                   description, systems, controllers, disturbances,
                   randomizations, settings, solver_settings, horizon,
                   ncalls, last, distCalls, pathLog, pos, errSeen>>

\* the engine's getLastErr() after a call of it failed
LastErrOf(call) == "error in " \o call

\* the pass without the test of the voltages against the error band
StepBody_NoBandTest(c, tk, voltOK, reading, contOK) ==
    IF ~voltOK
    THEN [c EXCEPT !.outcome = "engine_error", !.volt = <<>>, !.readAt = tk,
                   !.engineErr = LastErrOf("getBusVolt"),
                   !.printed = LastErrOf("getBusVolt")]
    ELSE IF ~contOK
    THEN [c EXCEPT !.outcome = "engine_error", !.volt = reading, !.readAt = tk,
                   !.nCont = @ + 1, !.lastTarget = tk,
                   !.engineErr = LastErrOf("contSim"),
                   !.printed = LastErrOf("contSim")]
    ELSE [c EXCEPT !.volt = reading, !.readAt = tk,
                   !.nCont = @ + 1, !.lastTarget = tk,
                   !.nDet = @ + 1, !.nFol = @ + 1, !.nSend = @ + 1,
                   !.sentUntil = tk + PyramsesStep]

\* one pass of "for tk in time_values" at tk: voltOK and contOK tell whether
\* getBusVolt and contSim return or raise, reading is what getBusVolt returns
StepBody(c, tk, voltOK, reading, contOK) ==
    IF ~voltOK
    THEN [c EXCEPT !.outcome = "engine_error", !.volt = <<>>, !.readAt = tk,
                   !.engineErr = LastErrOf("getBusVolt"),
                   !.printed = LastErrOf("getBusVolt")]
    ELSE IF tk > DisturbanceWindow /\ ~AllInBand(reading)
    THEN [c EXCEPT !.outcome = "diverged", !.volt = reading, !.readAt = tk]
    ELSE IF ~contOK
    THEN [c EXCEPT !.outcome = "engine_error", !.volt = reading, !.readAt = tk,
                   !.nCont = @ + 1, !.lastTarget = tk,
                   !.engineErr = LastErrOf("contSim"),
                   !.printed = LastErrOf("contSim")]
    ELSE [c EXCEPT !.volt = reading, !.readAt = tk,
                   !.nCont = @ + 1, !.lastTarget = tk,
                   !.nDet = @ + 1, !.nFol = @ + 1, !.nSend = @ + 1,
                   !.sentUntil = tk + PyramsesStep]

\* one pass of the loop over time_values; the pass that was the last one
\* leaves the loop
Step ==
    /\ pc = "stepping"
    /\ \E voltOK \in BOOLEAN, reading \in VoltageReadings, contOK \in BOOLEAN :
          LET c == StepBody(cur, step * PyramsesStep, voltOK, reading, contOK)
          IN  IF c.outcome # "running"
              THEN /\ cur' = c
                   /\ pc' = "ended"
                   /\ errSeen' = (errSeen \/ c.outcome = "engine_error")
                   /\ UNCHANGED step
              ELSE /\ step' = step + 1
                   /\ cur' = IF step + 1 >= NumSteps
                             THEN [c EXCEPT !.outcome = "completed"] ELSE c
                   /\ pc' = IF step + 1 >= NumSteps THEN "ended" ELSE "stepping"
                   /\ UNCHANGED errSeen
    /\ UNCHANGED <<cfgVars, ncalls, last, distCalls, inserted, fsVars, pos,
                   sessions, merged>>

\* the teardown that leaves the session open
EndSim_NotClosed(ss) == ss

\* sys.ram.endSim() on the session of the case
EndSim(ss) == [ss EXCEPT ![Len(ss)].closed = @ + 1]

\* the end of the loops' body: endSim, then the next case or the return;
\* of the record of the case only its outcome is kept
Teardown ==
    /\ pc = "ended"
    /\ sessions' = EndSim(sessions)
    /\ cur' = [NoCase EXCEPT !.outcome = cur.outcome]
    /\ step' = 0
    /\ pc' = IF pos < NumRunCases THEN "case" ELSE "done"
    /\ pos' = IF pos < NumRunCases THEN pos + 1 ELSE pos
    /\ UNCHANGED <<cfgVars, ncalls, last, distCalls, inserted, fsVars,
                   merged, errSeen>>

\* the horizons run() is explored with, in milliseconds: one that ends
\* within the disturbance window and one that ends after it
ShortHorizon == 60
LongHorizon == 5060

\* what run() is called on: an experiment set up through the add_* calls
\* and set_solver_and_horizon.  The short horizon is explored in flat mode
\* on every combination of axes; two systems under one controller batch and
\* one disturbance batch are explored with the short horizon in documented
\* mode and with the long one in flat mode.
RunInit ==
    /\ name = "exp"
    /\ repetitions = [isint |-> TRUE, val |-> 1]
    /\ current_repetition = 1
    /\ description = DefaultDescription
    /\ \/ /\ horizon = ShortHorizon
          /\ must_document = FALSE
          /\ systems \in {<< <<"s1", Sys(1)>> >>,
                          << <<"s1", Sys(1)>>, <<"s2", Sys(2)>> >>}
          /\ controllers \in {<< <<"c1", <<Ctl(1)>> >> >>,
                              << <<"c1", <<Ctl(1)>> >>, <<"c2", <<Ctl(2)>> >> >>,
                              << <<"c1", <<Ctl(1)>> >>, <<"none", <<>> >> >>}
          /\ disturbances \in {<< <<"d1", <<Dist(1)>> >> >>,
                               << <<"d1", <<Dist(1)>> >>,
                                  <<"d2", <<Dist(1), Dist(2)>> >> >>}
       \/ /\ horizon \in {ShortHorizon, LongHorizon}
          /\ must_document = (horizon = ShortHorizon)
          /\ systems = << <<"s1", Sys(1)>>, <<"s2", Sys(2)>> >>
          /\ controllers = << <<"c1", <<Ctl(1)>> >> >>
          /\ disturbances = << <<"d1", <<Dist(1)>> >> >>
    /\ observables = <<>>
    /\ randomizations = DefaultRandomizations
    /\ settings = DefaultSettings
    /\ solver_settings = DefaultSolverSettings
    /\ ncalls = 0
    /\ last = NoCall
    /\ distCalls = <<>>
    /\ inserted = <<>>
    /\ clock = 0
    /\ dirs = {}
    /\ files = [p \in {} |-> <<>>]
    /\ pathLog = {}
    /\ pc = "idle"
    /\ pos = 0
    /\ step = 0
    /\ sessions = <<>>
    /\ cur = NoCase
    /\ merged = [i \in DOMAIN systems |-> Unmerged]
    /\ errSeen = FALSE

RunObservableInputs == {<<Obs(3), Obs(1)>>}

\* add_observables called before run() or after it
AddObservablesAroundRun ==
    /\ pc \in {"idle", "done"}
    /\ ncalls < MaxCalls
    /\ \E args \in RunObservableInputs :
          LET r == ObservablesLoop(observables, args, <<>>) IN
          /\ Called("add_observables", r.raised, <<>>)
          /\ observables' = r.reg
          /\ inserted' = inserted \o r.done
    /\ UNCHANGED <<name, must_document, repetitions, current_repetition,
                   description, systems, controllers, disturbances,
                   randomizations, settings, solver_settings, horizon,
                   distCalls, fsVars, runVars>>

RunNext ==
    \/ AddObservablesAroundRun
    \/ RunStart
    \/ CaseInit
    \/ Step
    \/ Teardown

SpecRun == RunInit /\ [][RunNext]_vars

-----------------------------------------------------------------------------
(* Claims about the configuration calls, checked under Spec *)

\* a dict as the mapping it is, whatever the order of its items
AsMap(d) == [k \in Keys(d) |-> DictGet(d, k)]

\* the mapping of pre with exactly the keys of upd overwritten
Overwritten(pre, upd) ==
    [k \in Keys(pre) \cup Keys(upd) |->
        IF k \in Keys(upd) THEN DictGet(upd, k) ELSE DictGet(pre, k)]

\* C1: after set_RAMSES_settings(upd): if every key of upd is a recognized
\* setting name the settings map is the prior map with exactly those keys
\* overwritten; if some key is not, the call raised and the settings map is
\* the prior map, no key of upd applied.
C1_UpdateAllOrNothing ==
    last.op = "set_RAMSES_settings" =>
        IF Keys(last.upd) \subseteq setting_names
        THEN /\ ~last.raised
             /\ AsMap(settings) = Overwritten(last.preSettings, last.upd)
        ELSE /\ last.raised
             /\ AsMap(settings) = AsMap(last.preSettings)

AxisTags(axis) == {axis[i][1] : i \in DOMAIN axis}

C7_TextOfSortedSet ==
    LET S == Range(inserted)
        T == GetObservablesStr
    IN  /\ Len(T) = Cardinality(S)
        /\ \A o \in S : T[1 + Cardinality({x \in S : Less(x, o)})] = ObsStr(o)

\* observables inserted out of order and more than once
C7_Witness ==
    /\ Len(inserted) >= 4
    /\ Cardinality(Range(inserted)) < Len(inserted)
    /\ Less(inserted[2], inserted[1])
    /\ Len(GetObservablesStr) = 3

IsAscending(s) == \A i, j \in DOMAIN s : i < j => ~Less(s[j], s[i])

Count(s, x) == Cardinality({i \in DOMAIN s : s[i] = x})

IsPermutation(s, t) == \A x \in Range(s) \cup Range(t) : Count(s, x) = Count(t, x)

\* C10: the i-th entry of self.disturbances is the tag of the i-th
\* successful add_disturbances call with the disturbances of that call in
\* ascending order: a sorted permutation of what was supplied, the entries
\* in call order.
C10_BatchesSortedInCallOrder ==
    /\ Len(disturbances) = Len(distCalls)
    /\ \A i \in DOMAIN distCalls :
          /\ disturbances[i][1] = distCalls[i][1]
          /\ IsAscending(disturbances[i][2])
          /\ IsPermutation(disturbances[i][2], distCalls[i][2])

\* two batches stored, the first under the greater tag and supplied out of
\* order
C10_Witness ==
    /\ Len(disturbances) = 2
    /\ disturbances[1][1] = "tencharsxx"
    /\ disturbances[2][1] = "t1"
    /\ distCalls[1][2] = <<Dist(3), Dist(1), Dist(2)>>
    /\ disturbances[1][2] = <<Dist(1), Dist(2), Dist(3)>>

-----------------------------------------------------------------------------
(* Claims about the layout methods, checked under SpecLayout *)

\* the number of places where two tag tuples differ
Differences(a, b) == Cardinality({i \in 1..4 : a[i] # b[i]})

\* C5: two calls of case2str with the same four tags return the same
\* string, whenever they are made; two calls whose tags differ in one of the
\* four places return different strings.
C5_PathDeterministicInjective ==
    \A x \in pathLog, y \in pathLog :
        /\ x.tags = y.tags => x.result = y.result
        /\ Differences(x.tags, y.tags) = 1 => x.result # y.result

TagsDistinct(axis) == \A i, j \in DOMAIN axis : i # j => axis[i][1] # axis[j][1]

\* the directories and input files a case directory must hold
RequiredDirs(case_dir) ==
    {PathJoin(case_dir, common_children_dirs[i]) : i \in DOMAIN common_children_dirs}
    \cup {PathJoin(PathJoin(case_dir, obs_dir), obs_children_dirs[i]) :
             i \in DOMAIN obs_children_dirs}

RequiredFiles(case_dir) ==
    {PathJoin(PathJoin(case_dir, inp_dir), f) :
        f \in {obse_filename, sett_filename, dist_filename}}

\* C6: when the tags within each axis are pairwise distinct, on return of
\* init_files_and_dirs the root holds exactly |systems| x |disturbance
\* batches| x |controller batches| x |randomizations| case directories, one
\* per tag tuple at the path case2str gives for it, each with its six
\* children, the six observable subfolders and the three input files.
C6_OneDirectoryPerCase ==
    (/\ last.op = "init_files_and_dirs"
     /\ TagsDistinct(systems) /\ TagsDistinct(disturbances)
     /\ TagsDistinct(controllers) /\ TagsDistinct(randomizations))
    => /\ ~last.raised
       /\ Cardinality({d \in dirs : d[1] = GetDir(clock)}) = NumCases
       /\ \A i \in DOMAIN LayoutCases :
             LET case_dir == Case2Str(clock, LayoutCases[i])
             IN  /\ <<GetDir(clock), case_dir>> \in dirs
                 /\ \A p \in RequiredDirs(case_dir) : DirExists(dirs, p)
                 /\ RequiredFiles(case_dir) \subseteq DOMAIN files

-----------------------------------------------------------------------------
(* Claims about run(), checked under SpecRun *)

\* the number of passes of the loop before the one at time tk
PassesBefore(tk) == tk \div PyramsesStep

\* C2: when the voltages read at a step whose time tk is greater than the
\* disturbance window hold one outside (0.7, 1.2), the loop is left at that
\* step with the case aborted on divergence: contSim was called only for
\* earlier times, and the detector updates, controller follow-ups and
\* disturbance pushes are those of the earlier steps, none at tk or later.
C2_DivergenceAborts ==
    (/\ cur.readAt > DisturbanceWindow
     /\ \E i \in DOMAIN cur.volt :
            cur.volt[i] <= ErrorVmin \/ cur.volt[i] >= ErrorVmax)
    => /\ pc = "ended"
       /\ cur.outcome = "diverged"
       /\ cur.lastTarget < cur.readAt
       /\ cur.nCont = PassesBefore(cur.readAt)
       /\ cur.nDet = PassesBefore(cur.readAt)
       /\ cur.nFol = PassesBefore(cur.readAt)
       /\ cur.nSend = PassesBefore(cur.readAt)
       /\ cur.sentUntil <= cur.readAt

\* the second case of a run aborted on a voltage at the upper edge of the
\* band or beyond, read after the window, the engine having been advanced
\* before
C2_Witness ==
    /\ pos = 2
    /\ cur.outcome = "diverged"
    /\ cur.readAt > DisturbanceWindow
    /\ cur.volt = <<1250, 1000>>
    /\ cur.nCont > 0

\* C3: when an engine call fails at a step of a case, the text of
\* getLastErr() is printed and the loop of the case is left; run() then
\* goes on to the next case and never raises after the failure, so that on
\* its return every case of the enumeration has had its session.
C3_EngineErrorRecovery ==
    /\ (pc = "ended" /\ cur.outcome = "engine_error") =>
           (cur.printed = cur.engineErr /\ cur.engineErr # "")
    /\ errSeen => pc # "raised"
    /\ (errSeen /\ pc = "done") => Len(sessions) = NumRunCases

\* C4: the sessions are created one per case in the order of the cases;
\* each is closed at most once, every session but the last is closed, and
\* the last is open exactly while its case is in the loop or before its
\* teardown; when run() returns every case has had one session, closed
\* once.
C4_SessionLifecycle ==
    /\ \A i \in DOMAIN sessions :
          /\ sessions[i].closed <= 1
          /\ i < Len(sessions) => sessions[i].closed = 1
          /\ \A j \in DOMAIN sessions : i < j => sessions[i].case < sessions[j].case
    /\ Len(sessions) <= pos
    /\ pc \in {"stepping", "ended"} =>
          /\ sessions # <<>>
          /\ sessions[Len(sessions)] = [case |-> pos, closed |-> 0]
    /\ pc \in {"idle", "case", "raised", "done"} =>
          \A i \in DOMAIN sessions : sessions[i].closed = 1
    /\ pc = "done" =>
          /\ Len(sessions) = NumRunCases
          /\ \A i \in DOMAIN sessions : sessions[i].case = i

\* run() returned after a first case aborted on an engine error and a
\* second one aborted on divergence
C4_Witness ==
    /\ pc = "done"
    /\ errSeen
    /\ cur.outcome = "diverged"
    /\ Len(sessions) = 2
    /\ sessions[1].closed = 1 /\ sessions[2].closed = 1

\* C8 as stated: no two entries of the registry are equal
C8_NoEqualEntries ==
    \A i, j \in DOMAIN observables : i # j => observables[i] # observables[j]

\* C8: the registry is in ascending order and holds one entry per
\* observable inserted, by add_observables calls or by the cases of run(),
\* equal entries side by side; its set of members is the set of the
\* observables inserted, so that inserting an equal one leaves the set
\* unchanged.
C8_SortedBagOfInsertions ==
    /\ IsAscending(observables)
    /\ IsPermutation(observables, inserted)
    /\ Range(observables) = Range(inserted)

\* run() returned after two cases of the system whose detector requires
\* observables, the registry holding each of them twice
C8_Witness ==
    /\ pc = "done"
    /\ Len(sessions) >= 2
    /\ Count(observables, Obs(1)) >= 2
    /\ Count(observables, Obs(2)) >= 2
    /\ Cardinality(Range(observables)) < Len(observables)

\* C11: in a case where no reading diverges and no engine call fails, the
\* pass at time t asks the engine to continue to t + h, so that the case is
\* completed with as many advances as passes and the last advance target
\* equal to the horizon.
C11_CompletedAtHorizon ==
    /\ (cur.outcome \in {"running", "completed"} /\ cur.nCont > 0) =>
          cur.lastTarget = cur.readAt + PyramsesStep
    /\ (pc = "ended" /\ cur.outcome = "completed") =>
          /\ cur.nCont = NumSteps
          /\ cur.readAt = (NumSteps - 1) * PyramsesStep
          /\ cur.lastTarget = horizon

\* C13: when the engine session of a case is initialized, the controllers
\* and the disturbances merged into the stored model of the system of the
\* case are exactly those of the controller batch and of the disturbance
\* batch of the case.
C13_NoCrossCaseLeakage ==
    (pc = "stepping" /\ step = 0 /\ cur.readAt = -1) =>
        /\ merged[RunCase(pos).s].controllers = controllers[RunCase(pos).c][2]
        /\ merged[RunCase(pos).s].disturbances = disturbances[RunCase(pos).d][2]

\* C15: run() never stops before the end of the enumeration; on its return
\* every case of the product of the four axes has had its session, in
\* order, started and torn down once; and the tag tuples run() goes through
\* are those init_files_and_dirs makes case directories for.  Stated for
\* flat mode, where no path of a case depends on the clock.
C15_RunCoversEnumeration ==
    ~must_document =>
        /\ pc # "raised"
        /\ pc = "done" =>
              /\ Len(sessions) = NumRunCases
              /\ \A i \in DOMAIN sessions : sessions[i] = [case |-> i, closed |-> 1]
        /\ NumRunCases = NumCases
        /\ {RunCaseTags(i) : i \in 1..NumRunCases} = Range(LayoutCases)

-----------------------------------------------------------------------------
(* Claims about the settings and solver calls and their texts, under *)
(* SpecSettings                                                      *)

\* the directive line of name n with value v in columns of widths nw and vw
SettingLine(n, v, nw, vw) == "$" \o LJust(n, nw) \o LJust(Val2Str(v), vw) \o ";"

\* the widths of the name column and of the value column
NameWidth == Max({Len(k) : k \in Keys(settings)}) + 1
ValueWidth == Max({Len(Val2Str(DictGet(settings, k))) : k \in Keys(settings)}) + 1

\* the settings file of the case of tags t under the root of clock reading c
SettingsFile(c, t) == PathJoin(PathJoin(Case2Str(c, t), inp_dir), sett_filename)

\* the number of lines of text T equal to line
Occurrences(T, line) == Cardinality({i \in DOMAIN T : T[i] = line})

\* C12 as stated: after the two heading lines the settings text has one
\* directive line for each of the recognized setting names and no other
\* line.
C12_SettingsFileComplete ==
    LET T == GetSettingsStr
        nw == NameWidth
        vw == ValueWidth
    IN  /\ Len(T) = 2 + Cardinality(setting_names)
        /\ \A n \in setting_names :
              /\ n \in Keys(settings)
              /\ Occurrences(T, SettingLine(n, DictGet(settings, n), nw, vw)) = 1

\* C12: after the two heading lines the settings text has exactly one
\* directive line for each name stored in the settings map and no other
\* line; the stored names are recognized names, among them every name the
\* constructor gives a default; a call changes the values of the names of
\* its update only, so a name never set keeps its default, and a name of a
\* successful update is stored with the value given.  On return of
\* init_files_and_dirs the settings file of every case holds that text.
C12_OneLinePerStoredSetting ==
    /\ LET T == GetSettingsStr
           nw == NameWidth
           vw == ValueWidth
       IN  /\ Len(T) = 2 + Cardinality(Keys(settings))
           /\ \A n \in Keys(settings) :
                 Occurrences(T, SettingLine(n, DictGet(settings, n), nw, vw)) = 1
           /\ (last.op = "init_files_and_dirs" /\ ~last.raised) =>
                 \A i \in DOMAIN LayoutCases :
                    /\ SettingsFile(clock, LayoutCases[i]) \in DOMAIN files
                    /\ files[SettingsFile(clock, LayoutCases[i])] = T
    /\ Keys(DefaultSettings) \subseteq Keys(settings)
    /\ Keys(settings) \subseteq setting_names
    /\ last.op = "__init__" => settings = DefaultSettings
    /\ \A n \in Keys(last.preSettings) :
          (last.op # "set_RAMSES_settings" \/ n \notin Keys(last.upd)) =>
              DictGet(settings, n) = DictGet(last.preSettings, n)
    /\ (last.op = "set_RAMSES_settings" /\ ~last.raised) =>
          \A n \in Keys(last.upd) :
              n \in Keys(settings) /\ DictGet(settings, n) = DictGet(last.upd, n)

\* LATENCY, which has no default, was set and init_files_and_dirs then
\* wrote the files of two cases: the text has the line of LATENCY after
\* those of the thirteen names with a default
C12_Witness ==
    /\ last.op = "init_files_and_dirs"
    /\ ~last.raised
    /\ NumCases >= 2
    /\ "LATENCY" \in Keys(settings)
    /\ Len(files[SettingsFile(clock, LayoutCases[2])]) = 16
    /\ files[SettingsFile(clock, LayoutCases[2])][16] =
          SettingLine("LATENCY", DictGet(settings, "LATENCY"), NameWidth, ValueWidth)

\* C14: after a set_solver_and_horizon call that raised, for a horizon not
\* positive or for a key that is no solver setting name, the horizon and
\* the solver settings map are what they were before the call.
C14_FailedSolverUpdateAtomic ==
    (last.op = "set_solver_and_horizon" /\ last.raised) =>
        /\ horizon = last.preHorizon
        /\ AsMap(solver_settings) = AsMap(last.preSolver)
====
